---- MODULE Spec2Model ----
(***************************************************************************)
(* A model of src/redis_helper.rs: RedisHelper (a redis connection behind  *)
(* a tokio Mutex plus a governor rate limiter) and its operations          *)
(* get_current_state, update_subreddit, set_sections, get_sections,        *)
(* send_delta and apply_delta, run by concurrent actors, and the stream of  *)
(* new_delta_stream polled by consumers.  Every `.await` of the source is  *)
(* a step boundary: waiting for the connection lock, the redis command in  *)
(* flight (lock held), waiting on the limiter.  The limiter's clock counts *)
(* its replenish intervals; the channel is the history of its messages and *)
(* a subscription is a position in it.                                     *)
(***************************************************************************)
EXTENDS Integers, Sequences, FiniteSets, TLC

\* ---------------------------------------------------------------- bounds
\* Total number of calls the actors issue in one behaviour.
MaxCalls == 2
\* Calls issued in the runs that drain the limiter: more than its burst, and
\* one for a bystander.
MaxBurstCalls == 4

\* The concurrent actors sharing one RedisHelper (it is Clone).
Actors == {"a1", "a2"}
\* The connection mutex is free.
NoActor == "nobody"

\* ------------------------------------------------------------ data model
\* crate::reddit::SubredditState (UNKNOWN is the default sentinel).
States == {"UNKNOWN", "PUBLIC", "PRIVATE"}
\* Subreddit names the observers hand in.
Names == {"Foo", "bar"}
\* crate::reddit::Subreddit, the fields the protocol reads.
Subreddits == [name : Names, state : States]
\* crate::reddit::SubredditDelta.
Deltas == [prev_state : States, subreddit : Subreddits]
\* The deltas the observers of the delta pipeline hand in: every transition
\* of one subreddit.
ObservedDeltas == {d \in Deltas : d.subreddit.name = "Foo"}
\* Placeholder argument of the calls that take no delta.
NoDelta == [prev_state |-> "UNKNOWN", subreddit |-> [name |-> "", state |-> "UNKNOWN"]]

\* Subreddit::safe_name: the sanitized name used as the hash field.
safe_name(subreddit) ==
    CASE subreddit.name = "Foo" -> "foo"
      [] OTHER -> subreddit.name

\* Label lists handed to set_sections.
SectionLists == {<< >>, <<"big", "small">>, <<"small", "big">>}

\* The built-in labels of get_sections.
DefaultSections ==
    << "40+ million", "30+ million", "20+ million", "10+ million",
       "5+ million", "1+ million", "500k+", "250k+", "100k+", "50k+",
       "5k+", "5k and below", "1k+", "1k and below" >>

\* ------------------------------------------------------------- encodings
\* serde_json::to_string(&subreddit): the JSON text of a record.
EncodeSubreddit(s) ==
    "{\"name\":\"" \o s.name \o "\",\"state\":\"" \o s.state \o "\"}"

\* serde_json::from_str::<Subreddit>(v): the record a text encodes, or an error.
DecodeSubreddit(v) ==
    IF \E s \in Subreddits : EncodeSubreddit(s) = v
    THEN [ok |-> TRUE, val |-> CHOOSE s \in Subreddits : EncodeSubreddit(s) = v]
    ELSE [ok |-> FALSE, val |-> NoDelta.subreddit]

\* serde_json::to_string(&delta).
EncodeDelta(d) ==
    "{\"subreddit\":" \o EncodeSubreddit(d.subreddit)
        \o ",\"prev_state\":\"" \o d.prev_state \o "\"}"

\* serde_json::from_str::<SubredditDelta>(&delta).
DecodeDelta(v) ==
    IF \E d \in Deltas : EncodeDelta(d) = v
    THEN [ok |-> TRUE, val |-> CHOOSE d \in Deltas : EncodeDelta(d) = v]
    ELSE [ok |-> FALSE, val |-> NoDelta]

RECURSIVE JoinLabels(_)
JoinLabels(L) ==
    IF L = << >> THEN ""
    ELSE IF Len(L) = 1 THEN "\"" \o L[1] \o "\""
    ELSE "\"" \o L[1] \o "\"," \o JoinLabels(Tail(L))

\* serde_json::to_string(&sections): a JSON array of strings.
EncodeSections(L) == "[" \o JoinLabels(L) \o "]"

\* A stored hash value that is no record (truncated JSON).
Malformed == "{\"name\":"

\* The empty hash.
EmptyHash == [k \in {} |-> ""]

\* Contents the durable 'subreddit' hash may have when a process starts: empty,
\* or with an entry of another subreddit, well-formed or not.
InitialHashes ==
    { EmptyHash,
      [k \in {"bar"} |-> Malformed],
      [k \in {"bar"} |-> EncodeSubreddit([name |-> "bar", state |-> "PRIVATE"])] }

\* ----------------------------------------------------------------- state
VARIABLES
    store,      \* the redis hash 'subreddit': field -> JSON text
    sections,   \* the redis key 'sections': << >> when missing, else <<text>>
    channel,    \* the messages published on 'subreddit_updates', in order
    lock,       \* holder of the connection mutex (con), NoActor when free
    tokens,     \* cells the limiter can admit right now
    pc,         \* each actor's position in its call
    call,       \* each actor's current call and its argument
    srs,        \* get_current_state's local: the HGETALL reply
    trace,      \* what each actor's current call has done so far
    res,        \* the result of each actor's current call
    ncalls,     \* calls issued so far
    now,        \* the limiter's clock: replenish intervals (500 ms) elapsed
    subs        \* the subscriptions opened by new_delta_stream

vars == <<store, sections, channel, lock, tokens, pc, call, srs, trace, res, ncalls,
          now, subs>>

\* The consumers that may call new_delta_stream.
Subscribers == {"s1", "s2"}

\* Quota::per_second(2): a burst of 2 cells, one more every 500 ms.
Burst == 2

Pending == [val |-> << >>, kind |-> "Pending"]

\* The consumer that reads the snapshot before it subscribes.
Consumers == {"s1"}

\* A consumer that has not called new_delta_stream: no snapshot read, nothing
\* received. `from` counts the messages published before its SUBSCRIBE, `next`
\* is the position of the stream in the channel, `items` what it has yielded.
NoSubscription ==
    [pc |-> "new", from |-> 0, items |-> << >>, next |-> 0, snapshot |-> Pending]
Ok(v) == [val |-> v, kind |-> "Ok"]
Err(e) == [val |-> << >>, kind |-> e]

NoCall == [sections |-> << >>, delta |-> NoDelta, op |-> "none"]

Event(op, arg, ok) == [ok |-> ok, op |-> op, arg |-> arg]

InitWith(hashes) ==
    /\ store \in hashes
    /\ sections = << >>
    /\ channel = << >>
    /\ lock = NoActor
    /\ tokens = Burst
    /\ pc = [a \in Actors |-> "idle"]
    /\ call = [a \in Actors |-> NoCall]
    /\ srs = [a \in Actors |-> EmptyHash]
    /\ trace = [a \in Actors |-> << >>]
    /\ res = [a \in Actors |-> Pending]
    /\ ncalls = 0
    /\ now = 0
    /\ subs = [s \in Subscribers |-> NoSubscription]

\* A fresh deployment: nothing stored yet.
Init == InitWith({EmptyHash})

\* A process started on a hash that earlier processes (or others) wrote.
InitStore == InitWith(InitialHashes)

\* --------------------------------------------------------------- helpers
\* A caller is free to issue a call: it has none, or its last one returned.
CanCall(a) == pc[a] \in {"idle", "done"} /\ ncalls < MaxCalls

\* Entering a call: fresh locals.
Enter(a, c, p) ==
    /\ call' = [call EXCEPT ![a] = c]
    /\ pc' = [pc EXCEPT ![a] = p]
    /\ trace' = [trace EXCEPT ![a] = << >>]
    /\ srs' = [srs EXCEPT ![a] = EmptyHash]
    /\ ncalls' = ncalls + 1

\* (mutant) the connection is handed out without mutual exclusion.
LockCon_shared(a, from, to) ==
    /\ pc[a] = from
    /\ lock' = a
    /\ pc' = [pc EXCEPT ![a] = to]
    /\ trace' = [trace EXCEPT ![a] = Append(@, Event("LOCK", << >>, TRUE))]

\* self.con.lock().await: the mutex is taken when free.
LockCon(a, from, to) ==
    /\ pc[a] = from
    /\ lock = NoActor
    /\ lock' = a
    /\ pc' = [pc EXCEPT ![a] = to]
    /\ trace' = [trace EXCEPT ![a] = Append(@, Event("LOCK", << >>, TRUE))]

\* (mutant) HSETNX: a field that exists keeps its value.
HSet_insert_only(h, k, v) ==
    [f \in DOMAIN h \cup {k} |-> IF f \in DOMAIN h THEN h[f] ELSE v]

\* HSET on the hash.
HSet(h, k, v) == [f \in DOMAIN h \cup {k} |-> IF f = k THEN v ELSE h[f]]

\* ------------------------------------------------------ update_subreddit
\* The field and value update_subreddit hands to HSET.
update_subreddit_field(subreddit) == safe_name(subreddit)
update_subreddit_val(subreddit) == EncodeSubreddit(subreddit)

\* (mutant) the PRIVATE test compares with the wrong state.
send_delta_eligible_wrong_state(d) ==
    \/ d.prev_state # "UNKNOWN"
    \/ (d.prev_state = "UNKNOWN" /\ d.subreddit.state = "PUBLIC")

\* send_delta's test: is this delta announced at all?
send_delta_eligible(d) ==
    \/ d.prev_state # "UNKNOWN"
    \/ (d.prev_state = "UNKNOWN" /\ d.subreddit.state = "PRIVATE")

\* (mutant) every delta is handed to send_delta.
apply_delta_changed_always(d) == TRUE

\* (mutant) only the previous state is looked at.
apply_delta_changed_prev_only(d) == d.prev_state # "UNKNOWN"

\* apply_delta's test: did the state change?
apply_delta_changed(d) == d.prev_state # d.subreddit.state

\* (mutant) the limiter is waited on before the delta is looked at.
send_delta_entry_limiter_first(d) == "sd_limiter"

\* Where send_delta goes on entry: to the limiter, or straight to Ok(()).
send_delta_entry(d) == IF send_delta_eligible(d) THEN "sd_limiter" ELSE "done"

\* Where a call continues after update_subreddit returned Ok(()).
AfterUpdate(c) ==
    IF c.op = "apply_delta" /\ apply_delta_changed(c.delta)
    THEN send_delta_entry(c.delta)
    ELSE "done"

\* (mutant) the error of update_subreddit is dropped.
AfterUpdateFailed_ignored(c) == AfterUpdate(c)

\* Where a call continues after update_subreddit returned an error: the `?`
\* of apply_delta returns it at once.
AfterUpdateFailed(c) == "done"

call_update_subreddit(a) ==
    \E s \in Subreddits :
        /\ CanCall(a)
        /\ Enter(a, [sections |-> << >>,
                     delta |-> [prev_state |-> "UNKNOWN", subreddit |-> s],
                     op |-> "update_subreddit"], "us_lock")
        /\ res' = [res EXCEPT ![a] = Pending]
        /\ UNCHANGED <<now, subs, store, sections, channel, lock, tokens>>

\* (mutant) the record is written only when the state changed.
apply_delta_entry_if_changed(d) ==
    IF d.prev_state # d.subreddit.state THEN "us_lock" ELSE "done"

\* apply_delta's first step, whatever the delta: update_subreddit.
apply_delta_entry(d) == "us_lock"

call_apply_delta(a) ==
    \E d \in ObservedDeltas :
        /\ CanCall(a)
        /\ Enter(a, [sections |-> << >>, delta |-> d, op |-> "apply_delta"],
                 apply_delta_entry(d))
        /\ res' = [res EXCEPT ![a] =
                     IF apply_delta_entry(d) = "done" THEN Ok(<< >>) ELSE Pending]
        /\ UNCHANGED <<now, subs, store, sections, channel, lock, tokens>>

update_subreddit_lock(a) ==
    /\ LockCon(a, "us_lock", "us_hset")
    /\ UNCHANGED <<now, subs, store, sections, channel, tokens, call, srs, res, ncalls>>

\* (mutant) the guard outlives the HSET: the caller keeps the connection.
update_subreddit_hset_keeps_guard(a) ==
    /\ pc[a] = "us_hset"
    /\ lock = a
    /\ lock' = lock
    /\ LET s == call[a].delta.subreddit
           k == update_subreddit_field(s)
           v == update_subreddit_val(s)
       IN /\ store' = HSet(store, k, v)
          /\ trace' = [trace EXCEPT ![a] = Append(@, Event("HSET", <<k, v>>, TRUE))]
          /\ pc' = [pc EXCEPT ![a] = AfterUpdate(call[a])]
          /\ res' = [res EXCEPT ![a] =
                       IF AfterUpdate(call[a]) = "done" THEN Ok(<< >>) ELSE Pending]
    /\ UNCHANGED <<now, subs, sections, channel, tokens, call, srs, ncalls>>

\* The HSET completes (or the transport fails); the guard is dropped.
update_subreddit_hset(a) ==
    /\ pc[a] = "us_hset"
    /\ lock = a
    /\ lock' = NoActor
    /\ LET s == call[a].delta.subreddit
           k == update_subreddit_field(s)
           v == update_subreddit_val(s)
       IN \/ /\ store' = HSet(store, k, v)
             /\ trace' = [trace EXCEPT ![a] = Append(@, Event("HSET", <<k, v>>, TRUE))]
             /\ pc' = [pc EXCEPT ![a] = AfterUpdate(call[a])]
             /\ res' = [res EXCEPT ![a] =
                          IF AfterUpdate(call[a]) = "done" THEN Ok(<< >>) ELSE Pending]
          \/ /\ store' = store
             /\ trace' = [trace EXCEPT ![a] = Append(@, Event("HSET", <<k, v>>, FALSE))]
             /\ pc' = [pc EXCEPT ![a] = AfterUpdateFailed(call[a])]
             /\ res' = [res EXCEPT ![a] =
                          IF AfterUpdateFailed(call[a]) = "done"
                          THEN Err("TransportError") ELSE Pending]
    /\ UNCHANGED <<now, subs, sections, channel, tokens, call, srs, ncalls>>

\* ------------------------------------------------------------ send_delta
call_send_delta(a) ==
    \E d \in ObservedDeltas :
        /\ CanCall(a)
        /\ Enter(a, [sections |-> << >>, delta |-> d, op |-> "send_delta"],
                 send_delta_entry(d))
        /\ res' = [res EXCEPT ![a] =
                     IF send_delta_entry(d) = "done" THEN Ok(<< >>) ELSE Pending]
        /\ UNCHANGED <<now, subs, store, sections, channel, lock, tokens>>

\* (mutant) the connection is locked before the limiter is waited for.
send_delta_limiter_holding(a) ==
    /\ pc[a] = "sd_limiter"
    /\ lock = NoActor
    /\ lock' = a
    /\ UNCHANGED <<now, subs, store, sections, channel, tokens, pc, call, srs,
                   trace, res, ncalls>>

\* limiter.until_ready_with_jitter(..).await: returns once a cell is admitted.
send_delta_limiter(a) ==
    /\ pc[a] = "sd_limiter"
    /\ tokens > 0
    /\ tokens' = tokens - 1
    /\ pc' = [pc EXCEPT ![a] = "sd_lock"]
    /\ trace' = [trace EXCEPT ![a] = Append(@, Event("ACQUIRE", << >>, TRUE))]
    /\ UNCHANGED <<now, subs, store, sections, channel, lock, call, srs, res, ncalls>>

send_delta_lock(a) ==
    /\ LockCon(a, "sd_lock", "sd_publish")
    /\ UNCHANGED <<now, subs, store, sections, channel, tokens, call, srs, res, ncalls>>

\* (mutant) only the record is published, without prev_state.
send_delta_payload_record_only(d) == EncodeSubreddit(d.subreddit)

\* The text send_delta publishes.
send_delta_payload(d) == EncodeDelta(d)

\* (mutant) a failed publish is tried again.
AfterPublishFailed_retry(c) == "sd_lock"

\* Where a call continues after to_string or publish returned an error: the
\* `?` returns it from send_delta, and apply_delta's `?` from apply_delta.
AfterPublishFailed(c) == "done"

\* to_string(&delta)? then PUBLISH: the message goes out, or an error returns.
send_delta_publish(a) ==
    /\ pc[a] = "sd_publish"
    /\ lock = a
    /\ lock' = NoActor
    /\ LET p == send_delta_payload(call[a].delta)
       IN \/ /\ channel' = Append(channel, p)
             /\ trace' = [trace EXCEPT ![a] = Append(@, Event("PUBLISH", <<p>>, TRUE))]
             /\ pc' = [pc EXCEPT ![a] = "done"]
             /\ res' = [res EXCEPT ![a] = Ok(<< >>)]
          \/ \E e \in {"EncodeError", "TransportError"} :
                /\ channel' = channel
                /\ trace' = [trace EXCEPT ![a] = Append(@, Event("PUBLISH", <<p>>, FALSE))]
                /\ pc' = [pc EXCEPT ![a] = AfterPublishFailed(call[a])]
                /\ res' = [res EXCEPT ![a] =
                             IF AfterPublishFailed(call[a]) = "done" THEN Err(e) ELSE Pending]
    /\ UNCHANGED <<now, subs, store, sections, tokens, call, srs, ncalls>>

\* Half a second passes: the limiter can admit one more cell, up to its burst.
Replenish ==
    /\ tokens < Burst
    /\ tokens' = tokens + 1
    /\ now' = now + 1
    /\ UNCHANGED <<subs, store, sections, channel, lock, pc, call, srs, trace, res, ncalls>>


\* ----------------------------------------------------- get_current_state
call_get_current_state(a) ==
    /\ CanCall(a)
    /\ Enter(a, [sections |-> << >>, delta |-> NoDelta, op |-> "get_current_state"],
             "gcs_lock")
    /\ res' = [res EXCEPT ![a] = Pending]
    /\ UNCHANGED <<now, subs, store, sections, channel, lock, tokens>>

get_current_state_lock(a) ==
    /\ LockCon(a, "gcs_lock", "gcs_hgetall")
    /\ UNCHANGED <<now, subs, store, sections, channel, tokens, call, srs, res, ncalls>>

\* The orders in which a HashMap may iterate over the fields of h.
IterationOrders(h) ==
    {o \in [1..Cardinality(DOMAIN h) -> DOMAIN h] :
        \A i, j \in DOMAIN o : i # j => o[i] # o[j]}

\* The positions of o whose value decodes, in order.
RECURSIVE Decodable(_, _, _)
Decodable(h, o, i) ==
    IF i > Len(o) THEN << >>
    ELSE IF DecodeSubreddit(h[o[i]]).ok
         THEN <<DecodeSubreddit(h[o[i]]).val>> \o Decodable(h, o, i + 1)
         ELSE Decodable(h, o, i + 1)

\* (mutant) best-effort decoding: malformed values are skipped.
get_current_state_collect_lenient(h, o) == Ok(Decodable(h, o, 1))

\* srs.values().map(from_str).collect::<Result<Vec<_>, _>>() in the order o:
\* the first value that fails to decode makes the whole result an error.
get_current_state_collect(h, o) ==
    IF \E i \in DOMAIN o : ~DecodeSubreddit(h[o[i]]).ok
    THEN Err("DecodeError")
    ELSE Ok([i \in DOMAIN o |-> DecodeSubreddit(h[o[i]]).val])

\* The HGETALL completes (or the transport fails); the reply is decoded.
get_current_state_hgetall(a) ==
    /\ pc[a] = "gcs_hgetall"
    /\ lock = a
    /\ lock' = NoActor
    /\ pc' = [pc EXCEPT ![a] = "done"]
    /\ \/ /\ srs' = [srs EXCEPT ![a] = store]
          /\ trace' = [trace EXCEPT ![a] = Append(@, Event("HGETALL", << >>, TRUE))]
          /\ \E o \in IterationOrders(store) :
                res' = [res EXCEPT ![a] = get_current_state_collect(store, o)]
       \/ /\ srs' = srs
          /\ trace' = [trace EXCEPT ![a] = Append(@, Event("HGETALL", << >>, FALSE))]
          /\ res' = [res EXCEPT ![a] = Err("TransportError")]
    /\ UNCHANGED <<now, subs, store, sections, channel, tokens, call, ncalls>>

\* ---------------------------------------------- set_sections, get_sections
call_set_sections(a) ==
    \E L \in SectionLists :
        /\ CanCall(a)
        /\ Enter(a, [sections |-> L, delta |-> NoDelta, op |-> "set_sections"], "ss_lock")
        /\ res' = [res EXCEPT ![a] = Pending]
        /\ UNCHANGED <<now, subs, store, sections, channel, lock, tokens>>

set_sections_lock(a) ==
    /\ LockCon(a, "ss_lock", "ss_set")
    /\ UNCHANGED <<now, subs, store, sections, channel, tokens, call, srs, res, ncalls>>

\* The value set_sections hands to SET.
set_sections_val(L) == EncodeSections(L)

\* The SET completes (or the transport fails).
set_sections_set(a) ==
    /\ pc[a] = "ss_set"
    /\ lock = a
    /\ lock' = NoActor
    /\ pc' = [pc EXCEPT ![a] = "done"]
    /\ LET v == set_sections_val(call[a].sections)
       IN \/ /\ sections' = <<v>>
             /\ trace' = [trace EXCEPT ![a] = Append(@, Event("SET", <<v>>, TRUE))]
             /\ res' = [res EXCEPT ![a] = Ok(<< >>)]
          \/ /\ sections' = sections
             /\ trace' = [trace EXCEPT ![a] = Append(@, Event("SET", <<v>>, FALSE))]
             /\ res' = [res EXCEPT ![a] = Err("TransportError")]
    /\ UNCHANGED <<now, subs, store, channel, tokens, call, srs, ncalls>>

call_get_sections(a) ==
    /\ CanCall(a)
    /\ Enter(a, [sections |-> << >>, delta |-> NoDelta, op |-> "get_sections"], "gs_lock")
    /\ res' = [res EXCEPT ![a] = Pending]
    /\ UNCHANGED <<now, subs, store, sections, channel, lock, tokens>>

get_sections_lock(a) ==
    /\ LockCon(a, "gs_lock", "gs_get")
    /\ UNCHANGED <<now, subs, store, sections, channel, tokens, call, srs, res, ncalls>>

\* The reply of GET converted to Option<Vec<String>> by the redis client's
\* FromRedisValue: nil is None; a bulk string is not parsed as JSON: depending
\* on the client version it becomes a vector holding that one string, or the
\* conversion to Vec<String> fails.
get_sections_convert(reply) ==
    IF reply = << >>
    THEN {Ok(<< >>)}
    ELSE {Ok(<< <<reply[1]>> >>), Err("TypeError")}

\* (mutant) a missing key reads as the empty list.
get_sections_unwrap_or_empty(opt) ==
    IF opt.kind # "Ok" THEN opt
    ELSE IF opt.val = << >> THEN Ok(<< >>)
    ELSE Ok(opt.val[1])

\* sections.unwrap_or(vec![..14 labels..]) on the converted reply.
get_sections_unwrap_or(opt) ==
    IF opt.kind # "Ok" THEN opt
    ELSE IF opt.val = << >> THEN Ok(DefaultSections)
    ELSE Ok(opt.val[1])

\* The GET completes (or the transport fails).
get_sections_get(a) ==
    /\ pc[a] = "gs_get"
    /\ lock = a
    /\ lock' = NoActor
    /\ pc' = [pc EXCEPT ![a] = "done"]
    /\ \/ /\ trace' = [trace EXCEPT ![a] = Append(@, Event("GET", sections, TRUE))]
          /\ \E opt \in get_sections_convert(sections) :
                res' = [res EXCEPT ![a] = get_sections_unwrap_or(opt)]
       \/ /\ trace' = [trace EXCEPT ![a] = Append(@, Event("GET", << >>, FALSE))]
          /\ res' = [res EXCEPT ![a] = Err("TransportError")]
    /\ UNCHANGED <<now, subs, store, sections, channel, tokens, call, srs, ncalls>>

\* A caller hands in one call: call c starts at position p, while fewer than n
\* calls have been issued.
Call(a, c, p, n) ==
    /\ pc[a] \in {"idle", "done"}
    /\ ncalls < n
    /\ Enter(a, c, p)
    /\ res' = [res EXCEPT ![a] = IF p = "done" THEN Ok(<< >>) ELSE Pending]
    /\ UNCHANGED <<now, subs, store, sections, channel, lock, tokens>>

\* The transitions between the two known states of one subreddit: each is
\* announced, and the two messages differ.
Flips ==
    {d \in ObservedDeltas : /\ d.prev_state # "UNKNOWN"
                            /\ d.subreddit.state # "UNKNOWN"
                            /\ d.prev_state # d.subreddit.state}

\* A publisher announces a flip with send_delta.
send_flip(a, n) ==
    \E d \in Flips :
        Call(a, [sections |-> << >>, delta |-> d, op |-> "send_delta"],
             send_delta_entry(d), n)

\* An observer hands a flip to apply_delta.
apply_flip(a, n) ==
    \E d \in Flips :
        Call(a, [sections |-> << >>, delta |-> d, op |-> "apply_delta"],
             apply_delta_entry(d), n)

\* A writer stores the record of a flip with update_subreddit.
write_flip(a, n) ==
    \E d \in Flips :
        Call(a, [sections |-> << >>, delta |-> d, op |-> "update_subreddit"],
             "us_lock", n)

\* A reader calls get_current_state.
read_state(a, n) ==
    Call(a, [sections |-> << >>, delta |-> NoDelta, op |-> "get_current_state"],
         "gcs_lock", n)

\* ------------------------------------------------------ new_delta_stream
\* cli.new_redis_pubsub().await?: the consumer's own connection, or an error.
new_delta_stream_pubsub(s) ==
    /\ subs[s].pc = "new"
    /\ \E p \in {"connected", "failed"} : subs' = [subs EXCEPT ![s].pc = p]
    /\ UNCHANGED <<now, store, sections, channel, lock, tokens, pc, call, srs,
                   trace, res, ncalls>>

\* (mutant) the subscription replays the channel from its first message.
subscribe_position_replay(ch) == 0

\* SUBSCRIBE: the subscription receives the messages published from now on.
subscribe_position(ch) == Len(ch)

\* pubsub.subscribe("subreddit_updates").await?, then into_on_message().
new_delta_stream_subscribe(s) ==
    /\ subs[s].pc = "connected"
    /\ \/ subs' = [subs EXCEPT ![s].pc = "open",
                                ![s].from = Len(channel),
                                ![s].next = subscribe_position(channel)]
       \/ subs' = [subs EXCEPT ![s].pc = "failed"]
    /\ UNCHANGED <<now, store, sections, channel, lock, tokens, pc, call, srs,
                   trace, res, ncalls>>

\* The closure of s.map: the payload decoded as a SubredditDelta, or the error.
on_message_item(payload) ==
    LET d == DecodeDelta(payload)
    IN IF d.ok THEN Ok(d.val) ELSE Err("DecodeError")

\* (mutant) an error item ends the stream.
on_message_after_terminal(item) == IF item.kind = "Ok" THEN "open" ELSE "ended"

\* The stream after it yielded an item: map passes every message on, the
\* error items included, and never ends the stream itself.
on_message_after(item) == "open"

\* The stream yields its next item: the next message of the subscription,
\* through the closure.
on_message(s) ==
    /\ subs[s].pc = "open"
    /\ subs[s].next < Len(channel)
    /\ LET item == on_message_item(channel[subs[s].next + 1])
       IN subs' = [subs EXCEPT ![s].next = @ + 1,
                               ![s].items = Append(@, item),
                               ![s].pc = on_message_after(item)]
    /\ UNCHANGED <<now, store, sections, channel, lock, tokens, pc, call, srs,
                   trace, res, ncalls>>

\* Another client of the redis server publishes a text on 'subreddit_updates'
\* that is no SubredditDelta.
foreign_publish ==
    /\ ncalls < MaxCalls
    /\ ncalls' = ncalls + 1
    /\ channel' = Append(channel, Malformed)
    /\ UNCHANGED <<now, subs, store, sections, lock, tokens, pc, call, srs, trace, res>>

\* A consumer reads the snapshot before it subscribes: get_current_state on
\* its own connection.
consumer_get_current_state(s) ==
    /\ subs[s].pc = "new"
    /\ subs[s].snapshot = Pending
    /\ \E o \in IterationOrders(store) :
          subs' = [subs EXCEPT ![s].snapshot = get_current_state_collect(store, o)]
    /\ UNCHANGED <<now, store, sections, channel, lock, tokens, pc, call, srs,
                   trace, res, ncalls>>

\* The consumer's picture of the subreddits: the records of its snapshot by
\* safe name, each replaced by the record of the latest delta received for it.
RECURSIVE Overlay(_, _)
Overlay(view, items) ==
    IF items = << >> THEN view
    ELSE LET item == Head(items)
         IN Overlay(IF item.kind = "Ok"
                    THEN HSet(view, safe_name(item.val.subreddit), item.val.subreddit)
                    ELSE view,
                    Tail(items))

RECURSIVE SnapshotView(_)
SnapshotView(records) ==
    IF records = << >> THEN EmptyHash
    ELSE HSet(SnapshotView(Tail(records)), safe_name(Head(records)), Head(records))

View(s) == Overlay(SnapshotView(subs[s].snapshot.val), subs[s].items)

\* ------------------------------------------------------- specifications
\* The delta pipeline: observers calling apply_delta and send_delta.
NextDelta ==
    \/ \E a \in Actors : call_apply_delta(a)
    \/ \E a \in Actors : call_send_delta(a)
    \/ \E a \in Actors : update_subreddit_lock(a)
    \/ \E a \in Actors : update_subreddit_hset(a)
    \/ \E a \in Actors : send_delta_limiter(a)
    \/ \E a \in Actors : send_delta_lock(a)
    \/ \E a \in Actors : send_delta_publish(a)
    \/ Replenish

Spec == Init /\ [][NextDelta]_vars

\* The state store: writers calling update_subreddit, readers calling
\* get_current_state.
NextStore ==
    \/ \E a \in Actors : call_update_subreddit(a)
    \/ \E a \in Actors : call_get_current_state(a)
    \/ \E a \in Actors : update_subreddit_lock(a)
    \/ \E a \in Actors : update_subreddit_hset(a)
    \/ \E a \in Actors : get_current_state_lock(a)
    \/ \E a \in Actors : get_current_state_hgetall(a)

SpecStore == InitStore /\ [][NextStore]_vars

\* The delta stream: publishers calling send_delta, another client publishing
\* on the channel, consumers calling new_delta_stream and polling the stream.
NextStream ==
    \/ \E a \in Actors : send_flip(a, MaxCalls)
    \/ \E a \in Actors : send_delta_limiter(a)
    \/ \E a \in Actors : send_delta_lock(a)
    \/ \E a \in Actors : send_delta_publish(a)
    \/ Replenish
    \/ foreign_publish
    \/ \E s \in Subscribers : new_delta_stream_pubsub(s)
    \/ \E s \in Subscribers : new_delta_stream_subscribe(s)
    \/ \E s \in Subscribers : on_message(s)

SpecStream == Init /\ [][NextStream]_vars

\* The limiter under load: publishers sending more deltas than the limiter's
\* burst while others read and write the store.
NextLimiter ==
    \/ \E a \in Actors : send_flip(a, MaxBurstCalls)
    \/ \E a \in Actors : write_flip(a, MaxBurstCalls)
    \/ \E a \in Actors : read_state(a, MaxBurstCalls)
    \/ \E a \in Actors : update_subreddit_lock(a)
    \/ \E a \in Actors : update_subreddit_hset(a)
    \/ \E a \in Actors : send_delta_limiter(a)
    \/ \E a \in Actors : send_delta_lock(a)
    \/ \E a \in Actors : send_delta_publish(a)
    \/ \E a \in Actors : get_current_state_lock(a)
    \/ \E a \in Actors : get_current_state_hgetall(a)
    \/ Replenish

SpecLimiter == Init /\ [][NextLimiter]_vars

\* Observers of one subreddit, each handing its flips to apply_delta.
NextApply ==
    \/ \E a \in Actors : apply_flip(a, MaxCalls)
    \/ \E a \in Actors : update_subreddit_lock(a)
    \/ \E a \in Actors : update_subreddit_hset(a)
    \/ \E a \in Actors : send_delta_limiter(a)
    \/ \E a \in Actors : send_delta_lock(a)
    \/ \E a \in Actors : send_delta_publish(a)
    \/ Replenish

SpecApply == Init /\ [][NextApply]_vars

\* A consumer that reads the snapshot and then follows the stream, while
\* observers apply flips.
NextConsumer ==
    \/ \E a \in Actors : apply_flip(a, MaxCalls)
    \/ \E a \in Actors : update_subreddit_lock(a)
    \/ \E a \in Actors : update_subreddit_hset(a)
    \/ \E a \in Actors : send_delta_limiter(a)
    \/ \E a \in Actors : send_delta_lock(a)
    \/ \E a \in Actors : send_delta_publish(a)
    \/ Replenish
    \/ \E s \in Consumers : consumer_get_current_state(s)
    \/ \E s \in Consumers : new_delta_stream_pubsub(s)
    \/ \E s \in Consumers : new_delta_stream_subscribe(s)
    \/ \E s \in Consumers : on_message(s)

SpecConsumer == Init /\ [][NextConsumer]_vars

\* Observers applying more flips than the limiter's burst, and readers, on a
\* runtime that keeps polling every task that can go on and a limiter whose
\* clock keeps running.
NextLive ==
    \/ \E a \in Actors : apply_flip(a, MaxBurstCalls)
    \/ \E a \in Actors : read_state(a, MaxBurstCalls)
    \/ \E a \in Actors : update_subreddit_lock(a)
    \/ \E a \in Actors : update_subreddit_hset(a)
    \/ \E a \in Actors : send_delta_limiter(a)
    \/ \E a \in Actors : send_delta_lock(a)
    \/ \E a \in Actors : send_delta_publish(a)
    \/ \E a \in Actors : get_current_state_lock(a)
    \/ \E a \in Actors : get_current_state_hgetall(a)
    \/ Replenish

Fairness ==
    /\ \A a \in Actors :
        /\ WF_vars(update_subreddit_lock(a))
        /\ WF_vars(update_subreddit_hset(a))
        /\ WF_vars(send_delta_limiter(a))
        /\ WF_vars(send_delta_lock(a))
        /\ WF_vars(send_delta_publish(a))
        /\ WF_vars(get_current_state_lock(a))
        /\ WF_vars(get_current_state_hgetall(a))
    /\ WF_vars(Replenish)

SpecLive == Init /\ [][NextLive]_vars /\ Fairness

\* The category labels: callers of set_sections and get_sections.
NextSections ==
    \/ \E a \in Actors : call_set_sections(a)
    \/ \E a \in Actors : call_get_sections(a)
    \/ \E a \in Actors : set_sections_lock(a)
    \/ \E a \in Actors : set_sections_set(a)
    \/ \E a \in Actors : get_sections_lock(a)
    \/ \E a \in Actors : get_sections_get(a)

SpecSections == Init /\ [][NextSections]_vars

\* ---------------------------------------------------- reading the traces
IsStoreOp(e) == e.op \in {"HSET", "PUBLISH", "HGETALL", "GET", "SET"}
IsPublish(e) == e.op = "PUBLISH"
IsPublished(e) == e.op = "PUBLISH" /\ e.ok
IsAcquire(e) == e.op = "ACQUIRE"

\* The redis commands a call has issued, in order.
StoreOps(a) == SelectSeq(trace[a], IsStoreOp)
\* The messages a call has put on the channel.
Published(a) == SelectSeq(trace[a], IsPublished)

\* The call of actor a is a call of op that has returned.
Returned(a, op) == call[a].op = op /\ pc[a] = "done"
ReturnedOk(a, op) == Returned(a, op) /\ res[a].kind = "Ok"

\* The HSET of the record of delta d, as update_subreddit must issue it.
WriteOf(d, ok) ==
    Event("HSET", <<safe_name(d.subreddit), EncodeSubreddit(d.subreddit)>>, ok)

\* Actor a's call has completed the write of its record.
Persisted(a) == \E i \in DOMAIN trace[a] : trace[a][i] = WriteOf(call[a].delta, TRUE)

\* In this step actor a's HSET completes successfully.
HSetCompletes(a) ==
    /\ pc[a] = "us_hset"
    /\ pc'[a] # "us_hset"
    /\ trace'[a][Len(trace'[a])].ok

\* C1: apply_delta persists delta.subreddit whatever the delta is: the first
\* redis command of every apply_delta is the HSET of the record under its safe
\* name, an apply_delta that returned Ok has completed it, and the step that
\* completes it leaves the hash mapping the safe name to the encoded record.
C1_ApplyPersistsFirst ==
    /\ [](\A a \in Actors : call[a].op = "apply_delta" =>
            /\ StoreOps(a) # << >> =>
                 Head(StoreOps(a)) \in {WriteOf(call[a].delta, TRUE),
                                        WriteOf(call[a].delta, FALSE)}
            /\ ReturnedOk(a, "apply_delta") =>
                 /\ StoreOps(a) # << >>
                 /\ Head(StoreOps(a)) = WriteOf(call[a].delta, TRUE))
    /\ [][\A a \in Actors : (call[a].op = "apply_delta" /\ HSetCompletes(a)) =>
            LET s == call[a].delta.subreddit
            IN /\ safe_name(s) \in DOMAIN store'
               /\ store'[safe_name(s)] = EncodeSubreddit(s)]_vars

\* An apply_delta of a no-op delta returned Ok without a message, and the hash
\* holds its record.
C1_Witness ==
    \E a \in Actors :
        /\ ReturnedOk(a, "apply_delta")
        /\ call[a].delta.prev_state = call[a].delta.subreddit.state
        /\ Published(a) = << >>
        /\ "foo" \in DOMAIN store
        /\ store["foo"] = EncodeSubreddit(call[a].delta.subreddit)

\* C2: an apply_delta whose delta has prev_state = subreddit.state never
\* publishes and never takes a cell of the limiter, and when it has returned Ok
\* it has persisted the record.
C2_NoOpNeverPublishes ==
    \A a \in Actors :
        (call[a].op = "apply_delta"
            /\ call[a].delta.prev_state = call[a].delta.subreddit.state) =>
            /\ SelectSeq(trace[a], IsPublish) = << >>
            /\ SelectSeq(trace[a], IsAcquire) = << >>
            /\ pc[a] \notin {"sd_limiter", "sd_lock", "sd_publish"}
            /\ ReturnedOk(a, "apply_delta") => Persisted(a)

\* PRIVATE -> PRIVATE was applied: persisted, nothing on the channel, the
\* limiter untouched.
C2_Witness ==
    \E a \in Actors :
        /\ ReturnedOk(a, "apply_delta")
        /\ call[a].delta.prev_state = "PRIVATE"
        /\ call[a].delta.subreddit.state = "PRIVATE"
        /\ Persisted(a)
        /\ channel = << >>
        /\ tokens = Burst

\* C3: an apply_delta that returned Ok for a delta with prev_state # UNKNOWN and
\* prev_state # subreddit.state has persisted the record and made exactly one
\* publish attempt, which put one message on the channel; the message decodes
\* to the delta itself (the new record and prev_state).
C3_RealTransitionPublishesOnce ==
    \A a \in Actors :
        (ReturnedOk(a, "apply_delta")
            /\ call[a].delta.prev_state # "UNKNOWN"
            /\ call[a].delta.prev_state # call[a].delta.subreddit.state) =>
            /\ Persisted(a)
            /\ Len(SelectSeq(trace[a], IsPublish)) = 1
            /\ Len(Published(a)) = 1
            /\ LET p == Published(a)[1].arg[1]
                   m == DecodeDelta(p)
               IN /\ m.ok
                  /\ m.val.subreddit = call[a].delta.subreddit
                  /\ m.val.prev_state = call[a].delta.prev_state
                  /\ \E i \in DOMAIN channel : channel[i] = p

\* PUBLIC -> PRIVATE was applied and its one message is the channel's only one.
C3_Witness ==
    \E a \in Actors :
        /\ ReturnedOk(a, "apply_delta")
        /\ call[a].delta.prev_state = "PUBLIC"
        /\ call[a].delta.subreddit.state = "PRIVATE"
        /\ Len(channel) = 1
        /\ DecodeDelta(channel[1]).val = call[a].delta

\* C4: for an apply_delta whose delta has prev_state = UNKNOWN, a message is
\* published only if subreddit.state = PRIVATE, and once it has returned Ok the
\* record is persisted and a message was published iff subreddit.state = PRIVATE.
C4_UnknownPublishesIffPrivate ==
    \A a \in Actors :
        (call[a].op = "apply_delta" /\ call[a].delta.prev_state = "UNKNOWN") =>
            /\ Published(a) # << >> => call[a].delta.subreddit.state = "PRIVATE"
            /\ ReturnedOk(a, "apply_delta") =>
                 /\ Persisted(a)
                 /\ (Len(Published(a)) = 1) <=> (call[a].delta.subreddit.state = "PRIVATE")
                 /\ (Published(a) = << >>) <=> (call[a].delta.subreddit.state # "PRIVATE")

\* UNKNOWN -> PUBLIC was applied by one actor (silently) and UNKNOWN -> PRIVATE
\* by the other (announced).
C4_Witness ==
    \E a, b \in Actors :
        /\ ReturnedOk(a, "apply_delta") /\ ReturnedOk(b, "apply_delta")
        /\ call[a].delta.prev_state = "UNKNOWN" /\ call[a].delta.subreddit.state = "PUBLIC"
        /\ call[b].delta.prev_state = "UNKNOWN" /\ call[b].delta.subreddit.state = "PRIVATE"
        /\ Published(a) = << >>
        /\ Len(Published(b)) = 1

\* C5: an apply_delta whose HSET failed has returned that error having done
\* nothing else (no cell taken, no publish attempt), and every message an
\* apply_delta has published comes after its completed HSET of the same record.
C5_NeverNotifiedButNotPersisted ==
    \A a \in Actors : call[a].op = "apply_delta" =>
        /\ (\E i \in DOMAIN trace[a] : trace[a][i].op = "HSET" /\ ~trace[a][i].ok) =>
             /\ pc[a] = "done"
             /\ res[a] = Err("TransportError")
             /\ trace[a] = <<Event("LOCK", << >>, TRUE), WriteOf(call[a].delta, FALSE)>>
        /\ \A i \in DOMAIN trace[a] : IsPublished(trace[a][i]) =>
             LET m == DecodeDelta(trace[a][i].arg[1])
             IN /\ m.ok
                /\ \E j \in 1..(i - 1) : trace[a][j] = WriteOf(m.val, TRUE)

\* The HSET of an announceable delta failed: the error is returned, and the
\* channel and the limiter are untouched.
C5_Witness ==
    \E a \in Actors :
        /\ Returned(a, "apply_delta")
        /\ call[a].delta.prev_state = "PUBLIC"
        /\ call[a].delta.subreddit.state = "PRIVATE"
        /\ res[a] = Err("TransportError")
        /\ ~Persisted(a)
        /\ channel = << >>
        /\ tokens = Burst

\* C6: send_delta publishes only deltas with prev_state # UNKNOWN or
\* subreddit.state = PRIVATE, and one that returned Ok has published exactly
\* when the delta is such; for any other delta it returns Ok at once, having
\* neither waited on the limiter nor taken the lock nor issued a command.
C6_SendDeltaEligibility ==
    \A a \in Actors : call[a].op = "send_delta" =>
        LET d == call[a].delta
            eligible == d.prev_state # "UNKNOWN" \/ d.subreddit.state = "PRIVATE"
        IN /\ Published(a) # << >> => eligible
           /\ ReturnedOk(a, "send_delta") =>
                /\ (Len(Published(a)) = 1) <=> eligible
                /\ (Published(a) = << >>) <=> ~eligible
           /\ Published(a) # << >> => Published(a)[1].arg = <<EncodeDelta(d)>>
           /\ ~eligible =>
                /\ pc[a] = "done"
                /\ res[a] = Ok(<< >>)
                /\ trace[a] = << >>

\* UNKNOWN -> PUBLIC was handed to send_delta, which returned Ok having done
\* nothing, and a delta to announce was handed to it by the other actor.
C6_Witness ==
    \E a, b \in Actors :
        /\ ReturnedOk(a, "send_delta")
        /\ call[a].delta.prev_state = "UNKNOWN" /\ call[a].delta.subreddit.state = "PUBLIC"
        /\ trace[a] = << >>
        /\ ReturnedOk(b, "send_delta")
        /\ call[b].delta.prev_state = "PRIVATE" /\ call[b].delta.subreddit.state = "PUBLIC"
        /\ channel = <<EncodeDelta(call[b].delta)>>

\* A message whose delta has prev_state equal to its subreddit.state.
IsNoOpMessage(p) ==
    LET m == DecodeDelta(p)
    IN m.ok /\ m.val.prev_state = m.val.subreddit.state

\* C7 (as stated): no message on 'subreddit_updates' has prev_state equal to its
\* subreddit.state, whether the delta was handed to apply_delta or to
\* send_delta.
C7_NoNoOpMessageAtAll ==
    \A i \in DOMAIN channel : ~IsNoOpMessage(channel[i])

\* C7 (amended): no message published by apply_delta has prev_state equal to
\* its subreddit.state; send_delta itself does not compare the two, and a
\* message of it with equal states has a state other than UNKNOWN.
C7_NoNoOpMessageFromApply ==
    \A a \in Actors : \A i \in DOMAIN trace[a] :
        IsPublished(trace[a][i]) =>
            /\ call[a].op = "apply_delta" => ~IsNoOpMessage(trace[a][i].arg[1])
            /\ (call[a].op = "send_delta" /\ IsNoOpMessage(trace[a][i].arg[1])) =>
                 call[a].delta.prev_state # "UNKNOWN"

\* PUBLIC -> PUBLIC went through apply_delta without a message, and through
\* send_delta with one.
C7_Witness ==
    \E a, b \in Actors :
        /\ ReturnedOk(a, "apply_delta")
        /\ call[a].delta.prev_state = "PUBLIC" /\ call[a].delta.subreddit.state = "PUBLIC"
        /\ Published(a) = << >>
        /\ ReturnedOk(b, "send_delta")
        /\ call[b].delta = call[a].delta
        /\ channel = <<EncodeDelta(call[b].delta)>>

\* The GET of actor a's get_sections was answered with the stored text v.
GotText(a, v) ==
    /\ Returned(a, "get_sections")
    /\ trace[a] # << >>
    /\ trace[a][Len(trace[a])] = Event("GET", <<v>>, TRUE)

\* C8: once set_sections(L) has stored its text, a get_sections that reads it
\* returns exactly L, for every list L, the empty list included.
C8_SectionsRoundTrip ==
    \A a \in Actors : \A L \in SectionLists :
        GotText(a, EncodeSections(L)) => res[a] = Ok(L)

\* The 14 built-in labels, in the order of the source.
C9_Labels ==
    << "40+ million", "30+ million", "20+ million", "10+ million",
       "5+ million", "1+ million", "500k+", "250k+", "100k+", "50k+",
       "5k+", "5k and below", "1k+", "1k and below" >>

\* C9: a get_sections whose GET found no 'sections' key returns Ok with the 14
\* built-in labels in their fixed order, and a get_sections never changes the
\* key (or the hash): a missing key stays missing.
C9_MissingSectionsDefault ==
    /\ [](\A a \in Actors :
            (Returned(a, "get_sections")
                /\ trace[a][Len(trace[a])] = Event("GET", << >>, TRUE)) =>
                /\ res[a].kind = "Ok"
                /\ Len(res[a].val) = 14
                /\ res[a].val = C9_Labels)
    /\ [][\A a \in Actors : (pc[a] = "gs_get" /\ pc'[a] = "done") =>
            /\ sections' = sections
            /\ store' = store]_vars

\* get_sections returned the defaults and the key is still missing.
C9_Witness ==
    \E a \in Actors :
        /\ ReturnedOk(a, "get_sections")
        /\ trace[a][Len(trace[a])] = Event("GET", << >>, TRUE)
        /\ res[a].val[1] = "40+ million"
        /\ res[a].val[14] = "1k and below"
        /\ sections = << >>

\* The HGETALL of actor a's get_current_state was answered.
GotHash(a) ==
    /\ Returned(a, "get_current_state")
    /\ trace[a][Len(trace[a])] = Event("HGETALL", << >>, TRUE)

AllDecode(h) == \A k \in DOMAIN h : DecodeSubreddit(h[k]).ok

\* C10: get_current_state is all-or-nothing on the reply srs of its HGETALL: if
\* every value decodes it returns Ok with exactly one record per field, each
\* the decoding of that field's value; if any value is malformed it returns the
\* decode error and no record. The HGETALL reads the whole hash and changes
\* nothing.
C10_ReadAllOrNothing ==
    /\ [](\A a \in Actors : GotHash(a) =>
            IF AllDecode(srs[a])
            THEN /\ res[a].kind = "Ok"
                 /\ Len(res[a].val) = Cardinality(DOMAIN srs[a])
                 /\ \A k \in DOMAIN srs[a] :
                      Cardinality({i \in DOMAIN res[a].val :
                          res[a].val[i] = DecodeSubreddit(srs[a][k]).val}) = 1
            ELSE /\ res[a].kind = "DecodeError"
                 /\ res[a].val = << >>)
    /\ [][\A a \in Actors : (pc[a] = "gcs_hgetall" /\ pc'[a] = "done") =>
            /\ store' = store
            /\ sections' = sections
            /\ trace'[a][Len(trace'[a])].ok => srs'[a] = store]_vars

\* The hash held a record and a malformed value: the read returned the decode
\* error, without the record.
C10_Witness ==
    \E a \in Actors :
        /\ GotHash(a)
        /\ DOMAIN srs[a] = {"foo", "bar"}
        /\ DecodeSubreddit(srs[a]["foo"]).ok
        /\ ~DecodeSubreddit(srs[a]["bar"]).ok
        /\ res[a] = Err("DecodeError")
        /\ store = srs[a]

\* ------------------------------------------------------------------ C11
\* In this step actor a's HSET completes with an error.
HSetFails(a) ==
    /\ pc[a] = "us_hset"
    /\ pc'[a] # "us_hset"
    /\ ~trace'[a][Len(trace'[a])].ok

\* C11: update_subreddit is an idempotent last-write-wins upsert keyed by the
\* safe name. The step that completes a write leaves the record's safe name
\* mapped to the encoded record, whatever was there before, and every other
\* field as it was; a write of what the field already holds changes nothing;
\* a failed write changes nothing; and no step of anybody removes a field or
\* changes the hash otherwise.
C11_IdempotentUpsert ==
    /\ [][\A a \in Actors : HSetCompletes(a) =>
            LET k == safe_name(call[a].delta.subreddit)
                v == EncodeSubreddit(call[a].delta.subreddit)
            IN /\ DOMAIN store' = DOMAIN store \cup {k}
               /\ store'[k] = v
               /\ \A f \in DOMAIN store \ {k} : store'[f] = store[f]
               /\ (k \in DOMAIN store /\ store[k] = v) => store' = store]_vars
    /\ [][\A a \in Actors : HSetFails(a) => store' = store]_vars
    /\ [][DOMAIN store \subseteq DOMAIN store']_vars
    /\ [][store' # store => \E a \in Actors : HSetCompletes(a)]_vars

\* Both actors wrote a record of the same safe name, with different states:
\* the field holds one of the two, and the field of another key written before
\* them is still there.
C11_Witness ==
    /\ \A a \in Actors : ReturnedOk(a, "update_subreddit")
    /\ safe_name(call["a1"].delta.subreddit) = "foo"
    /\ safe_name(call["a2"].delta.subreddit) = "foo"
    /\ call["a1"].delta.subreddit.state # call["a2"].delta.subreddit.state
    /\ store["foo"] = EncodeSubreddit(call["a2"].delta.subreddit)
    /\ DOMAIN store = {"foo", "bar"}

\* ------------------------------------------------------------------ C12
\* C12: publishes are spaced by the limiter's rate: when N messages have been
\* published since the limiter was built, at least N - 1 replenish intervals
\* (of 1/rate = 500 ms) have passed, so that a second message is not out before
\* half a second.
C12_PublishSpacing == Len(channel) >= 1 => now >= Len(channel) - 1

\* ------------------------------------------------------------------ C13
\* The i-th item of a subscription is what message m of the channel decodes to.
ItemOf(item, m) ==
    IF item.kind = "Ok"
    THEN EncodeDelta(item.val) = m
    ELSE item.kind = "DecodeError" /\ ~DecodeDelta(m).ok

\* C13: every new_delta_stream call opens a subscription of its own, which
\* yields the messages published after its SUBSCRIBE, one item per message, in
\* the order of publication: the i-th item is the i-th message published after
\* the subscription opened, so nothing published before is replayed and no
\* message comes twice or out of order; polling one stream leaves the other
\* subscriptions as they are.
C13_SubscriptionInOrder ==
    /\ [](\A s \in Subscribers : subs[s].pc = "open" =>
            /\ subs[s].next = subs[s].from + Len(subs[s].items)
            /\ subs[s].next <= Len(channel)
            /\ \A i \in DOMAIN subs[s].items :
                 ItemOf(subs[s].items[i], channel[subs[s].from + i]))
    /\ [][\A s, t \in Subscribers :
            (s # t /\ subs'[s] # subs[s]) => subs'[t] = subs[t]]_vars

\* Two subscriptions opened at different times: the earlier one has yielded
\* both messages in order, the later one only the second.
C13_Witness ==
    /\ Len(channel) = 2
    /\ channel[1] # channel[2]
    /\ \E s, t \in Subscribers :
        /\ subs[s].pc = "open" /\ subs[s].from = 0
        /\ Len(subs[s].items) = 2
        /\ subs[s].items[1].kind = "Ok" /\ subs[s].items[2].kind = "Ok"
        /\ subs[t].pc = "open" /\ subs[t].from = 1
        /\ subs[t].items = <<subs[s].items[2]>>

\* ------------------------------------------------------------------ C16
\* C16 (as claimed): a decode-error item is terminal: a subscription yields
\* nothing after it, so an error item can only be the last item.
C16_DecodeErrorTerminal ==
    \A s \in Subscribers : \A i \in DOMAIN subs[s].items :
        subs[s].items[i].kind = "DecodeError" => i = Len(subs[s].items)

\* C16 (amended): a message that fails to decode surfaces as an error item at
\* its arrival position, and only there; the error does not end the
\* subscription: whatever it has yielded, the stream yields its next item as
\* soon as a further message has been published.
C16_DecodeErrorInPlace ==
    \A s \in Subscribers :
        /\ \A i \in DOMAIN subs[s].items :
             /\ subs[s].items[i].kind \in {"Ok", "DecodeError"}
             /\ subs[s].items[i].kind = "DecodeError"
                  <=> ~DecodeDelta(channel[subs[s].from + i]).ok
        /\ (subs[s].items # << >> /\ subs[s].next < Len(channel))
             => ENABLED on_message(s)

\* A subscription received a malformed message and then a delta: it yielded the
\* error item, and the delta after it.
C16_Witness ==
    \E s \in Subscribers :
        /\ Len(subs[s].items) = 2
        /\ subs[s].items[1] = Err("DecodeError")
        /\ subs[s].items[2].kind = "Ok"
        /\ channel[subs[s].from + 1] = Malformed
        /\ EncodeDelta(subs[s].items[2].val) = channel[subs[s].from + 2]

\* ------------------------------------------------------------------ C14
\* Actor a waits for the limiter, which has no cell to admit.
Blocked(a) == pc[a] = "sd_limiter" /\ tokens = 0

\* C14: a publisher waiting on the limiter never holds the connection lock, so
\* the reads and writes of another actor go on while publishers are blocked:
\* the other actor takes the lock when it is free and its HGETALL or HSET
\* completes.
C14_LimiterWaitWithoutLock ==
    \A a \in Actors : pc[a] = "sd_limiter" =>
        /\ lock # a
        /\ \A b \in Actors \ {a} :
            /\ (pc[b] = "gcs_lock" /\ lock = NoActor) => ENABLED get_current_state_lock(b)
            /\ pc[b] = "gcs_hgetall" => ENABLED get_current_state_hgetall(b)
            /\ (pc[b] = "us_lock" /\ lock = NoActor) => ENABLED update_subreddit_lock(b)
            /\ pc[b] = "us_hset" => ENABLED update_subreddit_hset(b)

\* One actor is blocked on the drained limiter while the other one holds the
\* lock, its HGETALL in flight.
C14_Witness ==
    \E a, b \in Actors :
        /\ Blocked(a)
        /\ pc[b] = "gcs_hgetall"
        /\ lock = b

\* ------------------------------------------------------------------ C15
\* Actor a has a redis command in flight on the connection.
InFlight(a) == pc[a] \in {"us_hset", "sd_publish", "gcs_hgetall", "ss_set", "gs_get"}

\* Actor a's apply_delta is between its HSET and its PUBLISH.
BetweenWriteAndPublish(a) ==
    /\ call[a].op = "apply_delta"
    /\ pc[a] \in {"sd_limiter", "sd_lock"}
    /\ Persisted(a)

\* C15: the store operations serialize on the one connection. At most one
\* command is in flight at a time, and the lock is held exactly while one is:
\* every command of a call comes right after a lock acquisition of its own and
\* every acquisition is followed by one command. So an apply_delta between its
\* HSET and its PUBLISH does not hold the lock, and another actor waiting for
\* the connection can take it there.
C15_OneCommandPerLock ==
    /\ Cardinality({a \in Actors : InFlight(a)}) <= 1
    /\ \A a \in Actors :
        /\ InFlight(a) <=> lock = a
        /\ \A i \in DOMAIN trace[a] :
            /\ IsStoreOp(trace[a][i]) => (i > 1 /\ trace[a][i - 1].op = "LOCK")
            /\ trace[a][i].op = "LOCK" =>
                 IF i = Len(trace[a]) THEN InFlight(a) ELSE IsStoreOp(trace[a][i + 1])
        /\ BetweenWriteAndPublish(a) =>
            /\ lock # a
            /\ \A b \in Actors \ {a} :
                 (pc[b] = "us_lock" /\ lock = NoActor) => ENABLED update_subreddit_lock(b)

\* While one apply_delta is between its HSET and its PUBLISH, the other actor
\* holds the lock with an HSET of its own in flight.
C15_Witness ==
    \E a, b \in Actors :
        /\ BetweenWriteAndPublish(a)
        /\ pc[b] = "us_hset"
        /\ lock = b

\* ------------------------------------------------------------------ C17
\* Actor a's apply_delta wrote its record and then failed to publish.
PublishFailedAfterWrite(a) ==
    /\ call[a].op = "apply_delta"
    /\ Persisted(a)
    /\ \E i \in DOMAIN trace[a] : IsPublish(trace[a][i]) /\ ~trace[a][i].ok

\* In this step actor a's publish fails.
PublishFails(a) ==
    /\ pc[a] = "sd_publish"
    /\ pc'[a] # "sd_publish"
    /\ ~trace'[a][Len(trace'[a])].ok

\* C17: nothing is retried and a failed publish is not rolled back. An
\* apply_delta whose write succeeded and whose publish failed has returned
\* that error after one limiter admission and exactly one publish attempt,
\* with no message of its own on the channel; the failing step puts nothing on
\* the channel, gives no cell back to the limiter and leaves the hash, with the
\* new record, as it is.
C17_FailedPublishNotRolledBack ==
    /\ [](\A a \in Actors : PublishFailedAfterWrite(a) =>
            /\ pc[a] = "done"
            /\ res[a].kind \in {"EncodeError", "TransportError"}
            /\ Len(SelectSeq(trace[a], IsPublish)) = 1
            /\ Len(SelectSeq(trace[a], IsAcquire)) = 1
            /\ Published(a) = << >>
            /\ StoreOps(a) = <<WriteOf(call[a].delta, TRUE),
                               Event("PUBLISH", <<EncodeDelta(call[a].delta)>>, FALSE)>>)
    /\ [][\A a \in Actors : PublishFails(a) =>
            /\ channel' = channel
            /\ tokens' = tokens
            /\ store' = store
            /\ (call[a].op = "apply_delta" =>
                  safe_name(call[a].delta.subreddit) \in DOMAIN store')]_vars

\* An apply_delta returned the publish error: its record is in the hash, the
\* channel is empty, and the limiter is one cell short.
C17_Witness ==
    \E a \in Actors :
        /\ PublishFailedAfterWrite(a)
        /\ pc[a] = "done"
        /\ res[a] = Err("TransportError")
        /\ store[safe_name(call[a].delta.subreddit)] = EncodeSubreddit(call[a].delta.subreddit)
        /\ channel = << >>
        /\ tokens = Burst - 1

\* ------------------------------------------------------------------ C18
\* No call is under way, and every call made so far has published its message.
AllAppliedAndPublished ==
    /\ \A a \in Actors : pc[a] \in {"idle", "done"}
    /\ ncalls > 0
    /\ Len(channel) = ncalls

\* C18: notifications are published in the order in which the records were
\* written, so that once all apply_delta calls have completed, the record
\* carried by the last message is the record the hash holds for that
\* subreddit.
C18_LastMessageIsStored ==
    AllAppliedAndPublished =>
        LET last == DecodeDelta(channel[Len(channel)]).val
        IN store[safe_name(last.subreddit)] = EncodeSubreddit(last.subreddit)

\* ------------------------------------------------------------------ C19
\* Consumer s read the snapshot, subscribed afterwards and has received every
\* message published since.
CaughtUp(s) ==
    /\ subs[s].snapshot.kind = "Ok"
    /\ subs[s].pc = "open"
    /\ subs[s].next = Len(channel)

\* The hash as records.
StoredRecords == [k \in DOMAIN store |-> DecodeSubreddit(store[k]).val]

\* C19: a consumer that calls get_current_state, then new_delta_stream, and
\* overlays every delta it receives ends with the contents of the hash: once
\* every apply_delta has completed and published, in an order that leaves the
\* last message equal to the stored record, and the consumer has received all
\* messages of its subscription, its picture is the hash. No change falls
\* between the snapshot and the subscription.
C19_ConsumerConverges ==
    \A s \in Consumers :
        (AllAppliedAndPublished /\ C18_LastMessageIsStored /\ CaughtUp(s))
            => View(s) = StoredRecords

\* ------------------------------------------------------------------ C20
\* Actor a is inside an apply_delta call.
InApply(a) == call[a].op = "apply_delta" /\ pc[a] \notin {"idle", "done"}

\* C20: every apply_delta call returns. With every actor's enabled step
\* eventually taken and the limiter refilling, an actor that has started
\* apply_delta gets to its return, without the connection lock: waiting for
\* the lock and waiting for the limiter never block each other for good.
C20_ApplyReturns ==
    \A a \in Actors :
        InApply(a) ~> (call[a].op = "apply_delta" /\ pc[a] = "done" /\ lock # a)

\* An apply_delta has returned Ok after writing and publishing, without the
\* lock, while the other actor is inside an apply_delta of its own.
C20_Witness ==
    \E a, b \in Actors :
        /\ ReturnedOk(a, "apply_delta")
        /\ Persisted(a)
        /\ Published(a) # << >>
        /\ lock # a
        /\ InApply(b)
====
